---- MODULE Spec2Model ----
(***************************************************************************)
(* Tile map, editor placement and push physics of the tile game.           *)
(*                                                                         *)
(* World coordinates are multiples of half a tile (the game moves by       *)
(* tile_width/2), so every length is stored as an integer number of half   *)
(* units: Fix(1) = 2 is one world unit.  A Python number is an int or a   *)
(* float; the two print differently ("1" and "1.0"), and the tile map is   *)
(* keyed by the printed position, so a coordinate is a record              *)
(* [v |-> value in half units, f |-> TRUE iff the Python value is a float].*)
(***************************************************************************)
EXTENDS Integers, Sequences, FiniteSets, TLC

\* ------------------------------------------------------------------ bounds
MaxTiles == 2       \* tiles in a level file, tiles placed in an editor session
MaxCol == 0         \* level files and clicks use the cells (0..MaxCol, -1..0)
MaxSteps == 2       \* input events explored in a session
Sub == 2            \* a pixel is 2*Sub units of length in the Xfm arithmetic
Reach == 5          \* world points lie within Reach units of an anchor point
Precision == 3      \* significant bits of a float in the FRect arithmetic

\* --------------------------------------------------------------- constants
TILE_WIDTH == 1

Fix(n) == 2 * n                       \* world units -> half units
Directions == {"up", "down", "left", "right"}
Behaviors == {"stop", "pass", "push"}

\* ------------------------------------------------------- Python numbers
Num(v, f) == [v |-> v, f |-> f]
IntNum(n) == Num(Fix(n), FALSE)
\* int/float + float and int/float - float give a float
AddFloat(a, m) == Num(a.v + m, TRUE)
SubFloat(a, m) == Num(a.v - m, TRUE)
\* Python == on numbers compares values: 1 == 1.0
NumEq(a, b) == a.v = b.v
\* Python == on positions (pairs of numbers)
PosEq(p, q) == NumEq(p[1], q[1]) /\ NumEq(p[2], q[2])
\* str(tuple(pos)): "(1, 0)" and "(1.0, 0)" are different strings; a printed
\* number is determined by its value and by whether it is a float
Str(p) == <<"(", p[1].v, p[1].f, ", ", p[2].v, p[2].f, ")">>

\* the key printed from the values alone, so that "1.0" and "1" coincide
name_of_values(tile) == Str(<<Num(tile.pos[1].v, FALSE), Num(tile.pos[2].v, FALSE)>>)

\* Tile.name
name(tile) == Str(tile.pos)

\* Tile.size
size(tile) == <<Fix(TILE_WIDTH), Fix(TILE_WIDTH)>>

\* ----------------------------------------------------------------- FRect
FRect(center, sz) == [center |-> center, size |-> sz]
left(r)   == r.center[1].v - (r.size[1] \div 2)
right(r)  == r.center[1].v + (r.size[1] \div 2)
top(r)    == r.center[2].v + (r.size[2] \div 2)
bottom(r) == r.center[2].v - (r.size[2] \div 2)

\* a hitbox of one tile whatever the size of the entity
hitbox_unit(entity) == FRect(entity.pos, <<Fix(TILE_WIDTH), Fix(TILE_WIDTH)>>)

\* Tile.hitbox, Player.hitbox: an entity is anything with pos and size
hitbox(entity) == FRect(entity.pos, entity.size)

\* Game.movement_amount: tile_width/2, always a float
movement_amount == Fix(TILE_WIDTH) \div 2

\* ------------------------------------------------------------- tile map
\* TileMap.tile_dict is a Python dict: an insertion-ordered list of entries
\* [key, id]; id is the reference to the tile object, and heap[id] is the
\* object (pos, color, behavior).  An editor entry is a plain dict without a
\* behavior field: behavior = "absent".
Keys(dict) == {dict[i].key : i \in 1..Len(dict)}
Ids(dict) == {dict[i].id : i \in 1..Len(dict)}
IndexOf(dict, key) == CHOOSE i \in 1..Len(dict) : dict[i].key = key

\* d[key]
Get(dict, key) == dict[IndexOf(dict, key)].id

\* del d[key]
Del(dict, key) == SelectSeq(dict, LAMBDA e : e.key # key)

\* an assignment that always adds an entry
Put_append(dict, key, id) == Append(dict, [key |-> key, id |-> id])

\* d[key] = value: an existing key keeps its place and gets the new value,
\* a new key goes to the end
Put(dict, key, id) ==
    IF key \in Keys(dict)
    THEN [dict EXCEPT ![IndexOf(dict, key)].id = id]
    ELSE Append(dict, [key |-> key, id |-> id])

\* TileMap.tile_list
tile_list(dict) == [i \in 1..Len(dict) |-> dict[i].id]

\* objects no longer referenced by the dict are unreachable
Collect(heap, dict) == [i \in Ids(dict) |-> heap[i]]

\* --------------------------------------------------------------- physics
\* the same test with closed intervals: touching edges collide
_is_colliding_closed(entity, tile) ==
    /\ right(hitbox(entity)) >= left(hitbox(tile))
    /\ left(hitbox(entity)) <= right(hitbox(tile))
    /\ top(hitbox(entity)) >= bottom(hitbox(tile))
    /\ bottom(hitbox(entity)) <= top(hitbox(tile))

\* Physics._is_colliding (and Player._is_collision)
_is_colliding(entity, tile) ==
    /\ right(hitbox(entity)) > left(hitbox(tile))
    /\ left(hitbox(entity)) < right(hitbox(tile))
    /\ top(hitbox(entity)) > bottom(hitbox(tile))
    /\ bottom(hitbox(entity)) < top(hitbox(tile))

TileEntity(tile) == [pos |-> tile.pos, size |-> size(tile)]

\* Physics.list_colliding_tiles
list_colliding_tiles(entity, heap, dict) ==
    SelectSeq(tile_list(dict), LAMBDA id : _is_colliding(entity, TileEntity(heap[id])))

\* the match on direction in Physics.move
Step(pos, direction) ==
    CASE direction = "up"    -> <<pos[1], AddFloat(pos[2], movement_amount)>>
      [] direction = "down"  -> <<pos[1], SubFloat(pos[2], movement_amount)>>
      [] direction = "left"  -> <<SubFloat(pos[1], movement_amount), pos[2]>>
      [] direction = "right" -> <<AddFloat(pos[1], movement_amount), pos[2]>>

\* a Stop tile that lets the entity through
on_stop_ignored(pos, old_pos) == pos

\* case 'stop': entity.pos = old_pos
on_stop(pos, old_pos) == old_pos

\* a Pass tile that blocks like a Stop tile
on_pass_blocks(pos, old_pos) == old_pos

\* case 'pass': pass
on_pass(pos, old_pos) == pos

\* the result of push_tile read the wrong way round
on_push_inverted(pushed, pos, old_pos) == IF pushed THEN old_pos ELSE pos

\* case 'push': keep the position if push_tile returned True, else old_pos
on_push(pushed, pos, old_pos) == IF pushed THEN pos ELSE old_pos

RECURSIVE move(_, _, _, _), push_tile(_, _, _, _), Dispatch(_, _, _, _, _, _, _)

\* The for loop of Physics.move over the list of colliding tiles, which was
\* built before the loop; i is the index of the next tile.  pos is the
\* entity's position.  A KeyError in push_tile ends the request (err).
\* depth is the deepest nesting of push_tile calls the loop reached.
Dispatch(lst, i, pos, old_pos, direction, heap, dict) ==
    IF i > Len(lst)
    THEN [pos |-> pos, heap |-> heap, dict |-> dict, err |-> FALSE, depth |-> 0]
    ELSE LET tile == heap[lst[i]] IN
         CASE tile.behavior = "stop" ->
                Dispatch(lst, i + 1, on_stop(pos, old_pos), old_pos, direction, heap, dict)
           [] tile.behavior = "pass" ->
                Dispatch(lst, i + 1, on_pass(pos, old_pos), old_pos, direction, heap, dict)
           [] tile.behavior = "push" ->
                LET r == push_tile(name(tile), direction, heap, dict) IN
                IF r.err
                THEN [pos |-> pos, heap |-> r.heap, dict |-> r.dict, err |-> TRUE,
                      depth |-> r.depth]
                ELSE LET rest == Dispatch(lst, i + 1, on_push(r.moved, pos, old_pos),
                                          old_pos, direction, r.heap, r.dict)
                     IN  [rest EXCEPT !.depth = IF r.depth > @ THEN r.depth ELSE @]
           [] OTHER ->
                Dispatch(lst, i + 1, pos, old_pos, direction, heap, dict)

\* Physics.move
move(entity, direction, heap, dict) ==
    LET old_pos == entity.pos
        new_pos == Step(entity.pos, direction)
        moved   == [entity EXCEPT !.pos = new_pos]
    IN  Dispatch(list_colliding_tiles(moved, heap, dict), 1,
                 new_pos, old_pos, direction, heap, dict)

\* a push that does not put the tile back into the map
push_tile_dropped(old_tile_name, direction, heap, dict) ==
    IF old_tile_name \notin Keys(dict)
    THEN [moved |-> FALSE, heap |-> heap, dict |-> dict, err |-> TRUE, depth |-> 1]
    ELSE LET id      == Get(dict, old_tile_name)
             old_pos == heap[id].pos
             r       == move(TileEntity(heap[id]), direction, heap,
                             Del(dict, old_tile_name))
             heap2   == [r.heap EXCEPT ![id].pos = r.pos]
         IN  [moved |-> ~PosEq(old_pos, r.pos), heap |-> heap2, dict |-> r.dict,
              err |-> r.err, depth |-> r.depth + 1]

\* TileMap.push_tile
push_tile(old_tile_name, direction, heap, dict) ==
    IF old_tile_name \notin Keys(dict)
    THEN [moved |-> FALSE, heap |-> heap, dict |-> dict, err |-> TRUE, depth |-> 1]
    ELSE LET id      == Get(dict, old_tile_name)
             old_pos == heap[id].pos
             r       == move(TileEntity(heap[id]), direction, heap,
                             Del(dict, old_tile_name))
             heap2   == [r.heap EXCEPT ![id].pos = r.pos]
         IN  IF r.err
             THEN [moved |-> FALSE, heap |-> heap2, dict |-> r.dict, err |-> TRUE,
                   depth |-> r.depth + 1]
             ELSE [moved |-> ~PosEq(old_pos, r.pos),
                   heap  |-> heap2,
                   dict  |-> Put(r.dict, name(heap2[id]), id),
                   err   |-> FALSE,
                   depth |-> r.depth + 1]

\* ----------------------------------------------------------------- state
VARIABLES
    app,            \* which program runs: "editor" (editor.py) or "game"
    tile_dict,      \* TileMap.tile_dict: sequence of [key, id] in insertion order
    tiles,          \* the tile objects the dict refers to: id -> [pos, color, behavior]
    player_pos,     \* Player.pos
    player_width,   \* Game.player_width
    style,          \* Cursor.style
    cursor,         \* Cursor.pos and Cursor.use_mpos
    mouse,          \* pygame.mouse.get_pos(), as a world point
    files,          \* level1.json and level.json on disk
    crashed,        \* an uncaught exception ended the session
    steps,          \* input events handled so far
    last,           \* the last operation, its input and the state it started from
    calc            \* a value handed through Xfm or FRect, and where it came from

vars == <<app, tile_dict, tiles, player_pos, player_width, style, cursor, mouse,
          files, crashed, steps, last, calc>>

\* Cursor.style_dict
style_dict == [n \in 1..4 |->
    CASE n = 1 -> "white" [] n = 2 -> "grey" [] n = 3 -> "light_grey" [] n = 4 -> "red"]

\* Cursor.color
color == style_dict[style]

\* Player.size
player_size(w) == <<Fix(w), Fix(w)>>

Player == [pos |-> player_pos, size |-> player_size(player_width)]

Tile(pos, col, behavior) == [pos |-> pos, color |-> col, behavior |-> behavior]

LevelCells == {<<IntNum(x), IntNum(y)>> : x \in 0..MaxCol, y \in -1..0}

\* Level files the game may find as level1.json: up to MaxTiles records, in
\* any order, one per cell, key = str of the integer position.
Levels ==
    UNION {
        {lv \in [1..n -> [pos : LevelCells, behavior : Behaviors]] :
            \A i, j \in 1..n : i # j => lv[i].pos # lv[j].pos}
        : n \in 0..MaxTiles}

History(op, arg) ==
    [op |-> op, arg |-> arg, pos |-> player_pos, width |-> player_width,
     dict |-> tile_dict, tiles |-> tiles, cursor |-> cursor, files |-> files,
     depth |-> 0]

\* ---------------------------------------------------------- persistence
\* A JSON file is modelled by the records of its top-level object in file
\* order, each with its key and its fields; a field that the record does not
\* have is "absent".  A number is the text json writes for it: a sign, the
\* digits before the point and, for a float, the fraction (".0" or ".5").
File(json) == [exists |-> TRUE, json |-> json]
NoFile == [exists |-> FALSE, json |-> <<>>]

\* Color of libs/utils.py: the named colors as (r, g, b, a)
Color(c) ==
    CASE c = "white"      -> <<255, 255, 255, 255>>
      [] c = "grey"       -> <<40, 40, 40, 255>>
      [] c = "med_grey"   -> <<80, 80, 80, 255>>
      [] c = "light_grey" -> <<120, 120, 120, 255>>
      [] c = "red"        -> <<255, 0, 0, 255>>

ColorNames == {"white", "grey", "med_grey", "light_grey", "red"}

\* pygame.Color(list): the color with these components
pygame_Color(rgba) == CHOOSE c \in ColorNames : Color(c) = rgba

\* json's text of an int (int.__repr__) and of a float (float.__repr__)
json_number(a) ==
    [neg    |-> a.v < 0,
     digits |-> (IF a.v < 0 THEN -a.v ELSE a.v) \div Fix(1),
     frac   |-> IF ~a.f THEN "" ELSE IF a.v % Fix(1) = 0 THEN ".0" ELSE ".5"]

\* json.load of a number: text without a fraction is an int, with one a float
parse_number(t) ==
    LET mag == Fix(t.digits) + (IF t.frac = ".5" THEN 1 ELSE 0) IN
    Num(IF t.neg THEN -mag ELSE mag, t.frac # "")

\* a position written as a list by json.dump, and read back by json.load
json_pos(pos) == <<json_number(pos[1]), json_number(pos[2])>>
parse_pos(l) == <<parse_number(l[1]), parse_number(l[2])>>

\* TileMapEncoder.default: a Tile becomes vars(obj), a pygame.Color its
\* tuple.  An entry of the editor is a dict of pos and color, which json
\* writes as it is: its record has no behavior.
default(obj) ==
    [pos |-> json_pos(obj.pos), color |-> Color(obj.color), behavior |-> obj.behavior]

\* json.dump(self.tile_dict, f, cls=TileMapEncoder)
dump(dict, heap) ==
    [i \in 1..Len(dict) |-> [key |-> dict[i].key, rec |-> default(heap[dict[i].id])]]

\* decode_tile_map_json: the records are decoded in file order into a new
\* dict; a record without 'behavior' raises KeyError, and err is set with the
\* dict as far as it was built.  The tag itself is not looked at.
RECURSIVE decode_from(_, _, _, _)
decode_from(json, i, dict, heap) ==
    IF i > Len(json) THEN [err |-> FALSE, dict |-> dict, heap |-> heap]
    ELSE IF json[i].rec.behavior = "absent"
         THEN [err |-> TRUE, dict |-> dict, heap |-> heap]
         ELSE LET rec == json[i].rec
                  t   == Tile(parse_pos(rec.pos), pygame_Color(rec.color), rec.behavior)
              IN  decode_from(json, i + 1, Put(dict, json[i].key, i),
                              [j \in DOMAIN heap \cup {i} |->
                                  IF j = i THEN t ELSE heap[j]])

decode_tile_map_json(json) == decode_from(json, 1, <<>>, <<>>)

\* a load that assigns what was decoded also when the decoding failed
load_in_place(file, dict, heap) ==
    IF ~file.exists THEN [err |-> TRUE, dict |-> dict, heap |-> heap]
    ELSE decode_tile_map_json(file.json)

\* TileMap.load: open(file) raises when the file is missing; tile_dict is
\* assigned only when decode_tile_map_json returned
load(file, dict, heap) ==
    IF ~file.exists THEN [err |-> TRUE, dict |-> dict, heap |-> heap]
    ELSE LET r == decode_tile_map_json(file.json) IN
         IF r.err THEN [err |-> TRUE, dict |-> dict, heap |-> heap] ELSE r

\* the content of level1.json for a level
LevelJson(lv) ==
    [i \in 1..Len(lv) |->
        [key |-> Str(lv[i].pos),
         rec |-> [pos |-> json_pos(lv[i].pos), color |-> Color("med_grey"),
                  behavior |-> lv[i].behavior]]]

\* Behavior fields a file found on disk may carry: the three behaviors, a tag
\* the game does not know, or none (the format the editor writes).
Tags == Behaviors \cup {"win", "absent"}

\* Files found as level1.json that were written by the editor or by hand: up
\* to MaxTiles records in a row of cells, as in the example of TileMap.load.
WrittenFiles ==
    UNION {
        {[i \in 1..n |->
            [key |-> Str(<<IntNum(i), IntNum(-1)>>),
             rec |-> [pos |-> json_pos(<<IntNum(i), IntNum(-1)>>),
                      color |-> Color("med_grey"),
                      behavior |-> tag[i]]]] : tag \in [1..n -> Tags]}
        : n \in 0..MaxTiles}

\* a file written by hand whose record of the tile at (1, -1) is filed under
\* the key of the cell to its right
MisfiledLevel ==
    <<[key |-> Str(<<IntNum(2), IntNum(-1)>>),
       rec |-> [pos |-> json_pos(<<IntNum(1), IntNum(-1)>>),
                color |-> Color("med_grey"),
                behavior |-> "push"]]>>

ExternalFiles == WrittenFiles \cup {MisfiledLevel}

\* pygame.mouse.get_pos() is (0, 0) until the pointer moves: the world point
\* (-250/30, 90/30), held as the point of the half-unit grid that rounds to
\* the same cell
MouseAtStart == <<Num(Fix(-8), TRUE), Num(Fix(3), TRUE)>>

\* no value is being transformed
Idle == [kind |-> "none"]

\* Game.__init__: the state after construction of program a, whose tile map
\* was decoded from json, with disk as level1.json
Boot(a, json, disk) ==
    /\ app = a
    /\ LET r == decode_tile_map_json(json) IN
          /\ ~r.err
          /\ tile_dict = r.dict
          /\ tiles = r.heap
    /\ files = [level1 |-> disk, level |-> NoFile]
    /\ player_pos = <<IntNum(-1), IntNum(0)>>
    /\ player_width = 2 * TILE_WIDTH
    /\ style = 1
    /\ cursor = [pos |-> <<IntNum(0), IntNum(0)>>, use_mpos |-> TRUE]
    /\ mouse = MouseAtStart
    /\ crashed = FALSE
    /\ steps = 0
    /\ last = [op |-> "init", arg |-> "none", pos |-> player_pos,
               width |-> player_width, dict |-> tile_dict, tiles |-> tiles,
               cursor |-> cursor, files |-> files, depth |-> 0]

\* Game.__init__ of editor.py (the tile map starts empty) and of game.py (the
\* level is loaded from level1.json)
Init ==
    /\ calc = Idle
    /\ \/ Boot("editor", <<>>, NoFile)
       \/ \E lv \in Levels : Boot("game", LevelJson(lv), File(LevelJson(lv)))

\* ---------------------------------------------------------------- game
\* UI.KEYDOWN w, a, s, d: a move request for the player, resolved by
\* Physics.move.  Player.move of game.py takes the same step and has the same
\* 'stop' and 'pass' branches; its 'push' branch calls TileMap.update_tile,
\* which the TileMap of libs/tile.py does not define, so pushes are modelled
\* through Physics.move and TileMap.push_tile.
Move(direction) ==
    /\ app = "game" /\ ~crashed /\ steps < MaxSteps
    /\ LET r == move(Player, direction, tiles, tile_dict) IN
          /\ player_pos' = r.pos
          /\ tile_dict' = r.dict
          /\ tiles' = Collect(r.heap, r.dict)
          /\ crashed' = r.err
          /\ last' = [History("move", direction) EXCEPT !.depth = r.depth]
    /\ steps' = steps + 1
    /\ UNCHANGED <<app, calc, player_width, style, cursor, mouse, files>>

\* shrink without the lower limit
scaled_unclamped(w, direction) ==
    CASE direction = "grow" -> w + 1
      [] direction = "shrink" -> w - 1

\* the match of Player.scale: grow is w + 1, shrink is max(w - 1, 1)
scaled(w, direction) ==
    CASE direction = "grow" -> w + 1
      [] direction = "shrink" -> IF w - 1 > 1 THEN w - 1 ELSE 1

\* Player.scale (UI.KEYDOWN up, down)
scale(direction) ==
    /\ app = "game" /\ ~crashed /\ steps < MaxSteps
    /\ player_width' = scaled(player_width, direction)
    /\ steps' = steps + 1
    /\ last' = History("scale", direction)
    /\ UNCHANGED <<app, calc, tile_dict, tiles, player_pos, style, cursor, mouse, files, crashed>>

\* --------------------------------------------------------------- editor
\* a round() that returns its argument
round_unrounded(a) == a

\* Python round() of a float: to the nearest integer, a tie to the even one
round(a) ==
    LET k == a.v \div 2 IN     \* floor of the value in world units
    IF a.v % 2 = 0 THEN Num(a.v, FALSE)
    ELSE IF k % 2 = 0 THEN Num(Fix(k), FALSE) ELSE Num(Fix(k + 1), FALSE)

\* Editor.snap_pos_to_grid
snap_pos_to_grid(pos_world) == <<round(pos_world[1]), round(pos_world[2])>>

\* a lookup under the key of the position as given, not snapped
has_tile_unsnapped(pos_world, dict) == Str(pos_world) \in Keys(dict)

\* Editor.has_tile
has_tile(pos_world, dict) == Str(snap_pos_to_grid(pos_world)) \in Keys(dict)

NewId(heap) == CHOOSE n \in 1..(Cardinality(DOMAIN heap) + 1) : n \notin DOMAIN heap

\* Editor.place_tile: the entry is a dict with pos and color only
place_tile(pos_world, heap, dict) ==
    LET pos == snap_pos_to_grid(pos_world)
        id  == NewId(heap)
        h2  == [i \in DOMAIN heap \cup {id} |->
                   IF i = id THEN Tile(pos, color, "absent") ELSE heap[i]]
        d2  == Put(dict, Str(pos), id)
    IN  [heap |-> Collect(h2, d2), dict |-> d2]

\* Editor.erase_tile
erase_tile(pos_world, heap, dict) ==
    LET pos == snap_pos_to_grid(pos_world)
        d2  == IF has_tile(pos_world, dict) THEN Del(dict, Str(pos)) ELSE dict
    IN  [heap |-> Collect(heap, d2), dict |-> d2]

\* world points a click can give: render_to_world returns floats
ClickPoints == {<<Num(x, TRUE), Num(y, TRUE)>> : x \in 0..Fix(MaxCol), y \in Fix(-1)..0}

\* UI.MOUSEBUTTONDOWN, button 1
LeftClick(p) ==
    /\ app = "editor" /\ ~crashed /\ steps < MaxSteps
    /\ Len(tile_dict) < MaxTiles \/ has_tile(p, tile_dict)
    /\ LET r == place_tile(p, tiles, tile_dict) IN
          /\ tile_dict' = r.dict
          /\ tiles' = r.heap
    /\ last' = History("place", p)
    /\ steps' = steps + 1
    /\ UNCHANGED <<app, calc, player_pos, player_width, style, cursor, mouse, files, crashed>>

\* UI.MOUSEBUTTONDOWN, button 2
RightClick(p) ==
    /\ app = "editor" /\ ~crashed /\ steps < MaxSteps
    /\ LET r == erase_tile(p, tiles, tile_dict) IN
          /\ tile_dict' = r.dict
          /\ tiles' = r.heap
    /\ last' = History("erase", p)
    /\ steps' = steps + 1
    /\ UNCHANGED <<app, calc, player_pos, player_width, style, cursor, mouse, files, crashed>>

\* UI.KEYDOWN 1, 2, 3, 4
SelectStyle(n) ==
    /\ app = "editor" /\ ~crashed /\ steps < MaxSteps
    /\ style' = n
    /\ last' = History("style", n)
    /\ steps' = steps + 1
    /\ UNCHANGED <<app, calc, tile_dict, tiles, player_pos, player_width, cursor, mouse, files, crashed>>

\* Cursor.move: one tile width, an int
cursor_move(pos, direction) ==
    CASE direction = "up"    -> <<pos[1], Num(pos[2].v + Fix(TILE_WIDTH), pos[2].f)>>
      [] direction = "down"  -> <<pos[1], Num(pos[2].v - Fix(TILE_WIDTH), pos[2].f)>>
      [] direction = "left"  -> <<Num(pos[1].v - Fix(TILE_WIDTH), pos[1].f), pos[2]>>
      [] direction = "right" -> <<Num(pos[1].v + Fix(TILE_WIDTH), pos[1].f), pos[2]>>

\* UI.KEYDOWN w, a, d and s without Ctrl
CursorKey(direction) ==
    /\ app = "editor" /\ ~crashed /\ steps < MaxSteps
    /\ cursor' = [pos |-> cursor_move(cursor.pos, direction), use_mpos |-> FALSE]
    /\ last' = History("key", direction)
    /\ steps' = steps + 1
    /\ UNCHANGED <<app, calc, tile_dict, tiles, player_pos, player_width, style, mouse,
                   files, crashed>>

\* a space key that always places
space_places(pos, heap, dict) == place_tile(pos, heap, dict)

\* Cursor.space
space(pos, heap, dict) ==
    IF has_tile(pos, dict) THEN erase_tile(pos, heap, dict)
    ELSE place_tile(pos, heap, dict)

\* UI.KEYDOWN space
Space ==
    /\ app = "editor" /\ ~crashed /\ steps < MaxSteps
    /\ Len(tile_dict) < MaxTiles \/ has_tile(cursor.pos, tile_dict)
    /\ LET r == space(cursor.pos, tiles, tile_dict) IN
          /\ tile_dict' = r.dict
          /\ tiles' = r.heap
    /\ last' = History("space", cursor.pos)
    /\ steps' = steps + 1
    /\ UNCHANGED <<app, calc, player_pos, player_width, style, cursor, mouse, files, crashed>>

\* UI.MOUSEMOTION, with the pointer now at world point p
MouseMotion(p) ==
    /\ app = "editor" /\ ~crashed /\ steps < MaxSteps
    /\ cursor' = [cursor EXCEPT !.use_mpos = TRUE]
    /\ mouse' = p
    /\ last' = History("motion", p)
    /\ steps' = steps + 1
    /\ UNCHANGED <<app, calc, tile_dict, tiles, player_pos, player_width, style, files, crashed>>

\* a cursor that follows the pointer in every frame
cursor_render_always(c, mpos) == [c EXCEPT !.pos = snap_pos_to_grid(mpos)]

\* Cursor.render: the cursor is put on the pointer's cell if use_mpos
cursor_render(c, mpos) ==
    IF c.use_mpos THEN [c EXCEPT !.pos = snap_pos_to_grid(mpos)] ELSE c

\* Game.game_loop of editor.py after the events: update_drawings and
\* CpuRenderer.render.  render_tileMap reads tile.art of every entry of the
\* map, and an entry of the editor is a dict: with a tile in the map the frame
\* ends in AttributeError before Cursor.render is reached.
Render ==
    /\ app = "editor" /\ ~crashed /\ steps < MaxSteps
    /\ crashed' = (Len(tile_dict) > 0)
    /\ cursor' = IF Len(tile_dict) > 0 THEN cursor ELSE cursor_render(cursor, mouse)
    /\ last' = History("render", "none")
    /\ steps' = steps + 1
    /\ UNCHANGED <<app, calc, tile_dict, tiles, player_pos, player_width, style, mouse, files>>

\* UI.KEYDOWN Ctrl+S of editor.py: TileMapEditor.save
EditorSave ==
    /\ app = "editor" /\ ~crashed /\ steps < MaxSteps
    /\ files' = [files EXCEPT !.level1 = File(dump(tile_dict, tiles))]
    /\ last' = History("save", "level1.json")
    /\ steps' = steps + 1
    /\ UNCHANGED <<app, calc, tile_dict, tiles, player_pos, player_width, style, cursor,
                   mouse, crashed>>

\* UI.KEYDOWN Ctrl+S of game.py: TileMapGame.save
GameSave ==
    /\ app = "game" /\ ~crashed /\ steps < MaxSteps
    /\ files' = [files EXCEPT !.level = File(dump(tile_dict, tiles))]
    /\ last' = History("save", "level.json")
    /\ steps' = steps + 1
    /\ UNCHANGED <<app, calc, tile_dict, tiles, player_pos, player_width, style, cursor,
                   mouse, crashed>>

\* UI.KEYDOWN Ctrl+L of game.py: TileMapGame.load
GameLoad ==
    /\ app = "game" /\ ~crashed /\ steps < MaxSteps
    /\ LET r == load(files.level1, tile_dict, tiles) IN
          /\ tile_dict' = r.dict
          /\ tiles' = r.heap
          /\ crashed' = r.err
    /\ last' = History("load", "level1.json")
    /\ steps' = steps + 1
    /\ UNCHANGED <<app, calc, player_pos, player_width, style, cursor, mouse, files>>

\* play and editing: move and scale requests of the game, clicks and style
\* keys of the editor
Next ==
    \/ \E d \in Directions : Move(d)
    \/ \E d \in {"grow", "shrink"} : scale(d)
    \/ \E p \in ClickPoints : LeftClick(p)
    \/ \E p \in ClickPoints : RightClick(p)
    \/ \E n \in 1..4 : SelectStyle(n)

Spec == Init /\ [][Next]_vars

\* the editor with all its events and its frames
InitEditor == calc = Idle /\ Boot("editor", <<>>, NoFile)

NextEditor ==
    \/ \E p \in ClickPoints : LeftClick(p)
    \/ \E p \in ClickPoints : RightClick(p)
    \/ \E n \in 1..4 : SelectStyle(n)
    \/ \E d \in Directions : CursorKey(d)
    \/ Space
    \/ \E p \in ClickPoints : MouseMotion(p)
    \/ Render
    \/ EditorSave

SpecEditor == InitEditor /\ [][NextEditor]_vars

\* persistence in the game: it started from a level1.json it could load, the
\* file has been written again since (by the editor or by hand) or removed,
\* and the session saves and loads
InitIO ==
    /\ calc = Idle
    /\ \E json \in ExternalFiles, disk \in {File(f) : f \in ExternalFiles} \cup {NoFile} :
          Boot("game", json, disk)

NextIO ==
    \/ GameSave
    \/ GameLoad

SpecIO == InitIO /\ [][NextIO]_vars

\* ------------------------------------------------------- play sessions
\* cells of the column right of the player's start, which the hitbox of the
\* player (x from -2 to 0) does not reach
FarCells == {<<IntNum(1), IntNum(y)>> : y \in -1..0}

FarLevels ==
    UNION {
        {lv \in [1..n -> [pos : FarCells, behavior : Behaviors]] :
            \A i, j \in 1..n : i # j => lv[i].pos # lv[j].pos}
        : n \in 0..MaxTiles}

\* a game session on such a level: move and scale requests
InitPlay ==
    /\ calc = Idle
    /\ \E lv \in FarLevels : Boot("game", LevelJson(lv), File(LevelJson(lv)))

NextPlay ==
    \/ \E d \in Directions : Move(d)
    \/ \E d \in {"grow", "shrink"} : scale(d)

SpecPlay == InitPlay /\ [][NextPlay]_vars

\* ------------------------------------------------------------------ Xfm
\* Lengths in the transforms are integers in units of 1/(2*Sub) pixel, which
\* is 1/(2*Sub*k) world units for the scale k = Game.scale.  In this unit a
\* world length x and its pixel length k*x are the same number, half a surface
\* (w/2 pixels) is w*Sub, and a pixel coordinate q is q*Unit.
Unit == 2 * Sub

\* OsWindow(window_size=(500,180)).surf.get_size()
WindowSize == <<500, 180>>

\* a surface argument: None, or a surface with a size
None == [given |-> FALSE, size |-> <<0, 0>>]
Surface(sz) == [given |-> TRUE, size |-> sz]

\* int() of a pixel length held in units: the whole pixels, toward zero
int(t) == IF t >= 0 THEN t \div Unit ELSE -((-t) \div Unit)

\* the transform without the flip of the y axis
world_to_render_unflipped(p, surf) ==
    LET sz == IF surf.given THEN surf.size ELSE WindowSize
        e  == sz[1] * Sub
        f  == sz[2] * Sub
    IN  <<int(p[1] + e), int(p[2] + f)>>

\* Xfm.world_to_render: (int(k*x + e), int(-k*y + f)), with (e, f) half the
\* size of surf, or of the window when no surf is given
world_to_render(p, surf) ==
    LET sz == IF surf.given THEN surf.size ELSE WindowSize
        e  == sz[1] * Sub
        f  == sz[2] * Sub
    IN  <<int(p[1] + e), int(-p[2] + f)>>

\* Xfm.render_to_world: (k_*(x - e), -k_*(y - f)); the size read from surf is
\* overwritten by the window's, so (e, f) is always half the window
render_to_world(p, surf) ==
    LET sz == WindowSize
        e  == sz[1] * Sub
        f  == sz[2] * Sub
    IN  <<p[1] * Unit - e, -(p[2] * Unit - f)>>

\* the surfaces of the program: the window and the surface of the cursor
\* (the size of a tile in pixels plus one)
Surfaces == {None, Surface(WindowSize), Surface(<<31, 31>>)}

\* world points around the world origin and around the point of pixel (0, 0),
\* where k*x + e changes sign
WorldPoints ==
    {<<a[1] + dx, a[2] + dy>> :
        a \in {<<0, 0>>, render_to_world(<<0, 0>>, None)},
        dx \in -Reach..Reach, dy \in -Reach..Reach}

\* pixels around the top left corner and the center of the window
PixelPoints ==
    {<<a[1] + dx, a[2] + dy>> :
        a \in {<<0, 0>>, <<250, 90>>}, dx \in -1..1, dy \in -1..1}

\* a point and a surface are chosen, and the point is handed through the
\* transforms
InitXfm ==
    /\ Boot("editor", <<>>, NoFile)
    /\ \E surf \in Surfaces :
          \/ \E p \in WorldPoints :
                calc = [kind |-> "world", val |-> p, surf |-> surf, src |-> p,
                        first |-> "none", n |-> 0]
          \/ \E q \in PixelPoints :
                calc = [kind |-> "render", val |-> q, surf |-> surf, src |-> q,
                        first |-> "none", n |-> 0]

\* xfm.world_to_render(p, surf)
WorldToRender ==
    /\ calc.kind = "world" /\ calc.n < 2
    /\ calc' = [calc EXCEPT !.kind = "render",
                            !.val = world_to_render(calc.val, calc.surf),
                            !.first = IF calc.n = 0 THEN "world_to_render" ELSE @,
                            !.n = @ + 1]
    /\ UNCHANGED <<app, tile_dict, tiles, player_pos, player_width, style, cursor,
                   mouse, files, crashed, steps, last>>

\* xfm.render_to_world(q, surf)
RenderToWorld ==
    /\ calc.kind = "render" /\ calc.n < 2
    /\ calc' = [calc EXCEPT !.kind = "world",
                            !.val = render_to_world(calc.val, calc.surf),
                            !.first = IF calc.n = 0 THEN "render_to_world" ELSE @,
                            !.n = @ + 1]
    /\ UNCHANGED <<app, tile_dict, tiles, player_pos, player_width, style, cursor,
                   mouse, files, crashed, steps, last>>

NextXfm ==
    \/ WorldToRender
    \/ RenderToWorld

SpecXfm == InitXfm /\ [][NextXfm]_vars

\* ---------------------------------------------------------------- FRect
\* The corners of an FRect are float sums of a coordinate and half a side.
\* A float is held as an integer, and holds Precision significant bits (a
\* Python float holds 53): a sum that needs more is rounded to the nearest
\* float, ties to the even one.

\* the least power of two p with m < p * 2^Precision
RECURSIVE Quantum(_, _)
Quantum(m, p) == IF m < p * 2^Precision THEN p ELSE Quantum(m, 2 * p)

\* the float nearest to the real number t
Float(t) ==
    LET m == IF t < 0 THEN -t ELSE t
        u == Quantum(m, 1)
        q == m \div u
        r == m % u
        up == 2 * r > u \/ (2 * r = u /\ q % 2 = 1)
        n == (IF up THEN q + 1 ELSE q) * u
    IN  IF t < 0 THEN -n ELSE n

\* x + (w/2) and x - (w/2) of floats; halving a float is exact
Plus(x, w) == Float(x + w \div 2)
Minus(x, w) == Float(x - w \div 2)

\* the corner properties of a rect [center, size]
topleft(rect) ==
    <<Minus(rect.center[1], rect.size[1]), Plus(rect.center[2], rect.size[2])>>
topright(rect) ==
    <<Plus(rect.center[1], rect.size[1]), Plus(rect.center[2], rect.size[2])>>
bottomright(rect) ==
    <<Plus(rect.center[1], rect.size[1]), Minus(rect.center[2], rect.size[2])>>
bottomleft(rect) ==
    <<Minus(rect.center[1], rect.size[1]), Minus(rect.center[2], rect.size[2])>>

Corners == {"topleft", "topright", "bottomright", "bottomleft"}

\* rect.<corner>
corner_of(rect, corner) ==
    CASE corner = "topleft"     -> topleft(rect)
      [] corner = "topright"    -> topright(rect)
      [] corner = "bottomright" -> bottomright(rect)
      [] corner = "bottomleft"  -> bottomleft(rect)

\* setters that put the center outside of the corner
set_corner_outward(rect, corner, p) ==
    [rect EXCEPT !.center =
        CASE corner = "topleft"     -> <<Minus(p[1], rect.size[1]), Plus(p[2], rect.size[2])>>
          [] corner = "topright"    -> <<Plus(p[1], rect.size[1]), Plus(p[2], rect.size[2])>>
          [] corner = "bottomright" -> <<Plus(p[1], rect.size[1]), Minus(p[2], rect.size[2])>>
          [] corner = "bottomleft"  -> <<Minus(p[1], rect.size[1]), Minus(p[2], rect.size[2])>>]

\* rect.<corner> = p: the setters assign center and nothing else
set_corner(rect, corner, p) ==
    [rect EXCEPT !.center =
        CASE corner = "topleft"     -> <<Plus(p[1], rect.size[1]), Minus(p[2], rect.size[2])>>
          [] corner = "topright"    -> <<Minus(p[1], rect.size[1]), Minus(p[2], rect.size[2])>>
          [] corner = "bottomright" -> <<Minus(p[1], rect.size[1]), Plus(p[2], rect.size[2])>>
          [] corner = "bottomleft"  -> <<Plus(p[1], rect.size[1]), Plus(p[2], rect.size[2])>>]

\* the floats up to two binades above the last one that holds every integer
Floats == {Float(t) : t \in -(2^(Precision + 1))..2^(Precision + 1)}

\* points: any float as x; as y zero and the largest odd float
FPoints == Floats \X {0, 2^Precision - 1}

\* sizes with exact halves
FSizes == {<<2, 4>>, <<4, 2>>}

\* rect = FRect(center, size)
InitFRect ==
    /\ Boot("editor", <<>>, NoFile)
    /\ \E center \in FPoints, sz \in FSizes :
          calc = [kind |-> "frect", rect |-> FRect(center, sz), op |-> "init",
                  corner |-> "none", p |-> center, old |-> FRect(center, sz),
                  n |-> 0]

\* rect.<corner> = p
AssignCorner(corner, p) ==
    /\ calc.kind = "frect" /\ calc.n = 0
    /\ calc' = [calc EXCEPT !.rect = set_corner(calc.rect, corner, p),
                            !.op = "assign", !.corner = corner, !.p = p,
                            !.old = calc.rect, !.n = @ + 1]
    /\ UNCHANGED <<app, tile_dict, tiles, player_pos, player_width, style, cursor,
                   mouse, files, crashed, steps, last>>

\* rect.<corner> = rect.<corner>
AssignSelf(corner) ==
    /\ calc.kind = "frect" /\ calc.n < 2
    /\ calc' = [calc EXCEPT !.rect = set_corner(calc.rect, corner,
                                                corner_of(calc.rect, corner)),
                            !.op = "self", !.corner = corner,
                            !.p = corner_of(calc.rect, corner),
                            !.old = calc.rect, !.n = @ + 1]
    /\ UNCHANGED <<app, tile_dict, tiles, player_pos, player_width, style, cursor,
                   mouse, files, crashed, steps, last>>

NextFRect ==
    \/ \E corner \in Corners, p \in FPoints : AssignCorner(corner, p)
    \/ \E corner \in Corners : AssignSelf(corner)

SpecFRect == InitFRect /\ [][NextFRect]_vars

\* -------------------------------------------------------- CpuRenderer
\* Game.drawings is a dict from the name of a drawing to its data; the data
\* that matters to a frame is the kind of the entries of the tile list.
DrawingNames == {"player", "tileMap", "hud", "cursor"}

\* the orders in which a dict can hold some of the names
Drawings ==
    {d \in UNION {[1..n -> DrawingNames] : n \in 0..Cardinality(DrawingNames)} :
        \A i, j \in DOMAIN d : i # j => d[i] # d[j]}

\* the case arms of the match statement: game.py draws the player and the
\* tile map, editor.py the tile map
Recognized(a) == IF a = "game" THEN {"player", "tileMap"} ELSE {"tileMap"}

\* render_player and render_tileMap: the tile list of the game holds Tiles;
\* the tile list of the editor holds the dicts of place_tile, and tile.art of
\* a dict raises AttributeError
draw_raises(a, drawing_name, tile_count) ==
    a = "editor" /\ drawing_name = "tileMap" /\ tile_count > 0

Frame(done, todo, drawn, raised) ==
    [done_drawings |-> done, todo_drawings |-> todo, drawn |-> drawn,
     raised |-> raised]

\* the loop 'for name in self.game.drawings' of CpuRenderer.render from the
\* i-th name on; editor.py keeps no done_drawings
RECURSIVE render_from(_, _, _, _, _)
render_from(a, drawings, tile_count, i, fr) ==
    IF i > Len(drawings) THEN fr
    ELSE IF drawings[i] \in Recognized(a)
         THEN IF draw_raises(a, drawings[i], tile_count)
              THEN [fr EXCEPT !.raised = TRUE]
              ELSE render_from(a, drawings, tile_count, i + 1,
                       [fr EXCEPT !.drawn = Append(@, drawings[i]),
                                  !.done_drawings =
                                      IF a = "game" THEN Append(@, drawings[i])
                                                    ELSE @])
         ELSE render_from(a, drawings, tile_count, i + 1,
                  [fr EXCEPT !.todo_drawings = Append(@, drawings[i])])

\* CpuRenderer.render
render(a, drawings, tile_count) ==
    render_from(a, drawings, tile_count, 1, Frame(<<>>, <<>>, <<>>, FALSE))

\* a renderer, the drawings of a frame and the number of tiles of the map
InitRender ==
    /\ Boot("editor", <<>>, NoFile)
    /\ \E a \in {"game", "editor"}, d \in Drawings, n \in 0..1 :
          calc = [kind |-> "drawings", renderer |-> a, drawings |-> d,
                  tile_count |-> n, frame |-> Frame(<<>>, <<>>, <<>>, FALSE)]

\* self.cpuRenderer.render()
RenderFrame ==
    /\ calc.kind = "drawings"
    /\ calc' = [calc EXCEPT !.kind = "frame",
                            !.frame = render(calc.renderer, calc.drawings,
                                             calc.tile_count)]
    /\ UNCHANGED <<app, tile_dict, tiles, player_pos, player_width, style, cursor,
                   mouse, files, crashed, steps, last>>

NextRender == RenderFrame

SpecRender == InitRender /\ [][NextRender]_vars

\* ------------------------------------------------------------ properties
Min(a, b) == IF a < b THEN a ELSE b
Max(a, b) == IF a > b THEN a ELSE b

\* two rectangles share interior points (open intervals meet on both axes)
StrictOverlap(a, b) ==
    /\ Max(left(a), left(b)) < Min(right(a), right(b))
    /\ Max(bottom(a), bottom(b)) < Min(top(a), top(b))

TileAt(i) == tiles[tile_dict[i].id]             \* tile of the i-th entry now
PreTileAt(i) == last.tiles[last.dict[i].id]     \* ... before the last operation

DirVec(direction) ==
    CASE direction = "up" -> <<0, 1>> [] direction = "down" -> <<0, -1>>
      [] direction = "left" -> <<-1, 0>> [] direction = "right" -> <<1, 0>>

\* value of a position one step further in a direction
StepValue(pos, direction) ==
    <<pos[1].v + DirVec(direction)[1] * movement_amount,
      pos[2].v + DirVec(direction)[2] * movement_amount>>
Value(pos) == <<pos[1].v, pos[2].v>>
Box(value, sz) == FRect(<<Num(value[1], TRUE), Num(value[2], TRUE)>>, sz)

MoveDone == last.op = "move" /\ ~crashed
\* the mover's hitbox at the tentative position of the last move request
TentativeBox == Box(StepValue(last.pos, last.arg), player_size(last.width))
PreBox(id) == Box(Value(last.tiles[id].pos), size(last.tiles[id]))
\* tiles the mover's tentative hitbox overlapped when the request started
Hit == {id \in Ids(last.dict) : StrictOverlap(TentativeBox, PreBox(id))}
Reverted == Value(player_pos) = Value(last.pos)
Advanced == Value(player_pos) = StepValue(last.pos, last.arg)
\* the map as a set of (key, position, color, behavior), order ignored
MapOf(dict, heap) ==
    {<<dict[i].key, Value(heap[dict[i].id].pos), heap[dict[i].id].color,
       heap[dict[i].id].behavior>> : i \in 1..Len(dict)}
MapUnchanged == MapOf(tile_dict, tiles) = MapOf(last.dict, last.tiles)

NeverCrashes == ~crashed

\* C1: no two tiles stored in the tile map have the same position.
C1_OneTilePerPosition ==
    \A i, j \in 1..Len(tile_dict) :
        i # j => Value(TileAt(i).pos) # Value(TileAt(j).pos)

\* C2: a move request never overwrites a map entry: the tiles in the map
\* after the request are the tiles before it, and so is their number.
C2_PushNeverOverwrites ==
    last.op = "move" =>
        /\ Len(tile_dict) = Len(last.dict)
        /\ Ids(tile_dict) = Ids(last.dict)

\* a pushed tile was re-inserted at a position where another tile sits
C2_Witness ==
    /\ MoveDone
    /\ \E i, j \in Ids(tile_dict) :
          /\ i # j
          /\ Value(tiles[i].pos) # Value(last.tiles[i].pos)
          /\ Value(tiles[i].pos) = Value(tiles[j].pos)
    /\ Len(tile_dict) = Len(last.dict)

\* C3: a move request that ends with the mover at its pre-move position
\* leaves the tile map as it was: no tile has been pushed.
C3_RejectedMoveLeavesMap ==
    (last.op = "move" /\ Reverted) => MapUnchanged

DestBox(id) == Box(StepValue(last.tiles[id].pos, last.arg), size(last.tiles[id]))
\* tiles that overlap the destination of tile id
Blockers(id) == {j \in Ids(last.dict) \ {id} : StrictOverlap(DestBox(id), PreBox(j))}
OldKey(id) == last.dict[CHOOSE i \in 1..Len(last.dict) : last.dict[i].id = id].key
\* tile id went one step, left its old key and is stored once, under the key
\* of its new position, and the mover is at its tentative position
Relocated(id) ==
    /\ id \in DOMAIN tiles
    /\ Value(tiles[id].pos) = StepValue(last.tiles[id].pos, last.arg)
    /\ OldKey(id) \notin Keys(tile_dict)
    /\ Cardinality({i \in 1..Len(tile_dict) : tile_dict[i].id = id}) = 1
    /\ \A i \in 1..Len(tile_dict) :
          tile_dict[i].id = id => tile_dict[i].key = Str(tiles[id].pos)
    /\ Advanced

C6_BlockedPushRejectsMove ==
    last.op = "move" =>
        \A id \in Hit :
            (last.tiles[id].behavior = "push" /\ Blockers(id) # {}) =>
                /\ Reverted
                /\ \A j \in Blockers(id) \cup {id} :
                      j \in DOMAIN tiles /\ Value(tiles[j].pos) = Value(last.tiles[j].pos)
                /\ Len(tile_dict) = Len(last.dict)

\* C7: a move request moves no tile outside the mover's tentative hitbox,
\* and moves a tile by one step at most.
C7_SingleLevelPush ==
    last.op = "move" =>
        \A id \in Ids(last.dict) :
            /\ id \in DOMAIN tiles
            /\ id \notin Hit => Value(tiles[id].pos) = Value(last.tiles[id].pos)
            /\ id \in Hit => Value(tiles[id].pos) \in
                  {Value(last.tiles[id].pos), StepValue(last.tiles[id].pos, last.arg)}

Perms(n) == {f \in [1..n -> 1..n] : \A i, j \in 1..n : i # j => f[i] # f[j]}

\* C8: the outcome of the last move request (mover position, position of
\* every tile) is the outcome for every enumeration order of the map.
C8_OrderInvariant ==
    last.op = "move" =>
        \A f \in Perms(Len(last.dict)) :
            LET d == [i \in 1..Len(last.dict) |-> last.dict[f[i]]]
                r == move([pos |-> last.pos, size |-> player_size(last.width)],
                          last.arg, last.tiles, d)
            IN  /\ Value(r.pos) = Value(player_pos)
                /\ \A id \in Ids(last.dict) :
                      id \in DOMAIN tiles /\ Value(r.heap[id].pos) = Value(tiles[id].pos)

\* C9: when every tile the mover's tentative hitbox overlaps is Pass (or
\* there is none), the mover ends at the tentative position and the tile
\* map is unchanged.
C9_PassAllowsMovement ==
    (last.op = "move" /\ \A id \in Hit : last.tiles[id].behavior = "pass")
        => (Advanced /\ tile_dict = last.dict /\ tiles = last.tiles)

\* a Pass tile was hit and the mover went through
C9_Witness ==
    /\ MoveDone
    /\ Hit # {}
    /\ \A id \in Hit : last.tiles[id].behavior = "pass"
    /\ Advanced

\* the interiors of two rectangles share a point; points are taken on a grid
\* twice as fine as the positions
SharePoint(a, b) ==
    \E x \in (2 * left(a) + 1)..(2 * right(a) - 1) :
    \E y \in (2 * bottom(a) + 1)..(2 * top(a) - 1) :
        /\ 2 * left(b) < x /\ x < 2 * right(b)
        /\ 2 * bottom(b) < y /\ y < 2 * top(b)

\* an edge of a lies on the opposite edge of b
Touching(a, b) ==
    \/ right(a) = left(b) \/ left(a) = right(b)
    \/ top(a) = bottom(b) \/ bottom(a) = top(b)

\* C10: the player and a tile collide iff their hitboxes overlap on open
\* intervals; a player whose edge exactly touches a tile's edge does not
\* collide with it.
C10_StrictCollision ==
    app = "game" =>
        \A id \in Ids(tile_dict) :
            LET t == TileEntity(tiles[id]) IN
            /\ _is_colliding(Player, t) <=> SharePoint(hitbox(Player), hitbox(t))
            /\ Touching(hitbox(Player), hitbox(t)) => ~_is_colliding(Player, t)

\* the player has moved and rests flush against a Stop tile: its right
\* edge lies on the tile's left edge
C10_Witness ==
    /\ MoveDone /\ Advanced
    /\ \E id \in Ids(tile_dict) :
          LET t == TileEntity(tiles[id]) IN
          /\ tiles[id].behavior = "stop"
          /\ right(hitbox(Player)) = left(hitbox(t))
          /\ top(hitbox(Player)) > bottom(hitbox(t))
          /\ bottom(hitbox(Player)) < top(hitbox(t))
          /\ ~_is_colliding(Player, t)

\* C11: every tile stored in the map has integer coordinates.
C11_TilesOnIntegerGrid ==
    \A i \in 1..Len(tile_dict) :
        TileAt(i).pos[1].v % Fix(1) = 0 /\ TileAt(i).pos[2].v % Fix(1) = 0

\* C12: the player's width is at least 1; grow adds exactly 1, shrink takes
\* exactly 1 off a width above 1 and leaves a width of 1 alone.
C12_ScaleClamp ==
    /\ player_width >= 1
    /\ (last.op = "scale" /\ last.arg = "grow") => player_width = last.width + 1
    /\ (last.op = "scale" /\ last.arg = "shrink" /\ last.width > 1)
          => player_width = last.width - 1
    /\ (last.op = "scale" /\ last.arg = "shrink" /\ last.width = 1)
          => player_width = 1

\* a player of width 1 was shrunk and is still of width 1
C12_Witness ==
    last.op = "scale" /\ last.arg = "shrink" /\ last.width = 1 /\ player_width = 1

\* the entries of a map stored under other keys than k
Others(k, dict, heap) == {e \in MapOf(dict, heap) : e[1] # k}

\* the cell the last editor operation was asked for, and its key
Cell == snap_pos_to_grid(last.arg)
CellKey == Str(Cell)

\* C13: after place_tile(p) the map has exactly one tile at the snapped cell
\* of p, it carries the color of the cursor's selected style, and the entries
\* of all other cells are as they were.
C13_PlacePutsOneTile ==
    last.op = "place" =>
        /\ Cardinality({i \in 1..Len(tile_dict) : tile_dict[i].key = CellKey}) = 1
        /\ Cardinality({i \in 1..Len(tile_dict) :
                            Value(TileAt(i).pos) = Value(Cell)}) = 1
        /\ \A i \in 1..Len(tile_dict) :
              tile_dict[i].key = CellKey =>
                  /\ TileAt(i).pos = Cell
                  /\ TileAt(i).color = style_dict[style]
        /\ Others(CellKey, tile_dict, tiles) = Others(CellKey, last.dict, last.tiles)

\* a tile was placed on a cell that already had one
C13_Witness == last.op = "place" /\ CellKey \in Keys(last.dict)

\* C14: after erase_tile(p) there is no tile at the snapped cell of p; if
\* there was none the map is as it was and nothing fails, and the entries of
\* all other cells are as they were.
C14_EraseRemovesTile ==
    last.op = "erase" =>
        /\ CellKey \notin Keys(tile_dict)
        /\ \A i \in 1..Len(tile_dict) : Value(TileAt(i).pos) # Value(Cell)
        /\ ~crashed
        /\ CellKey \notin Keys(last.dict) => tile_dict = last.dict /\ tiles = last.tiles
        /\ Others(CellKey, tile_dict, tiles) = Others(CellKey, last.dict, last.tiles)

\* the tile of an occupied cell was erased
C14_Witness == last.op = "erase" /\ CellKey \in Keys(last.dict)

\* the space key flipped the occupancy of the cursor's cell and left the
\* other cells alone
C15_Flip ==
    last.op = "space" =>
        /\ last.arg = cursor.pos
        /\ has_tile(cursor.pos, tile_dict) # has_tile(cursor.pos, last.dict)
        /\ (CellKey \in Keys(tile_dict)) # (CellKey \in Keys(last.dict))
        /\ Others(CellKey, tile_dict, tiles) = Others(CellKey, last.dict, last.tiles)

\* a space key right after a space key gives the cell the occupancy it had
\* before the first of the two
C15_Twice ==
    (last.op = "space" /\ last'.op = "space") =>
        ((Str(snap_pos_to_grid(cursor'.pos)) \in Keys(tile_dict'))
            <=> (Str(snap_pos_to_grid(cursor'.pos)) \in Keys(last.dict)))

\* C15: Cursor.space() erases the tile of the cursor's cell if there is one
\* and places one otherwise: every invocation flips the occupancy of that
\* cell, two in a row restore it, and no other cell is affected.
C15_SpaceToggles == [](C15_Flip) /\ [][C15_Twice]_vars

\* the space key erased the tile of the cursor's cell
C15_Witness ==
    last.op = "space" /\ has_tile(last.arg, last.dict) /\ ~has_tile(cursor.pos, tile_dict)

\* C16: the cursor's mode is pointer-follow right after a pointer motion and
\* manual right after a directional key, no other event changes it, and a
\* frame rendered in manual mode leaves the cursor's position alone.
C16_ModeLatch ==
    /\ last.op = "motion" => cursor.use_mpos
    /\ last.op = "key" => ~cursor.use_mpos
    /\ last.op \notin {"motion", "key", "init"} =>
           cursor.use_mpos = last.cursor.use_mpos
    /\ (last.op = "render" /\ ~last.cursor.use_mpos) => cursor.pos = last.cursor.pos

\* a frame was rendered in manual mode with the pointer on another cell
C16_Witness ==
    /\ last.op = "render" /\ ~crashed /\ ~cursor.use_mpos
    /\ cursor.pos # snap_pos_to_grid(mouse)

\* the map decoded from json has the keys of the given map and, under each
\* key, a tile of equal position, color and behavior
SameMap(json, dict, heap) ==
    LET r == decode_tile_map_json(json) IN
        /\ ~r.err
        /\ Keys(r.dict) = Keys(dict)
        /\ \A k \in Keys(dict) :
              LET a == heap[Get(dict, k)]
                  b == r.heap[Get(r.dict, k)]
              IN  /\ PosEq(a.pos, b.pos) /\ a.pos[1].f = b.pos[1].f /\ a.pos[2].f = b.pos[2].f
                  /\ a.color = b.color
                  /\ a.behavior = b.behavior

\* the file the last save has written
Saved == IF app = "editor" THEN files.level1 ELSE files.level

\* C17: the file a save has written, decoded by decode_tile_map_json, gives
\* a map with the keys of the saved map and, under each key, a tile with equal
\* position, color and behavior.
C17_RoundTrip ==
    last.op = "save" => Saved.exists /\ SameMap(Saved.json, tile_dict, tiles)

\* the records of the file the last load read
Loaded == last.files.level1.json

\* C18: a load of records without a behavior field succeeds, and the tile of
\* such a record has the behavior stop.
C18_LoadDefaultsToStop ==
    (/\ last.op = "load" /\ last.files.level1.exists
     /\ \A i \in 1..Len(Loaded) : Loaded[i].rec.behavior \in Behaviors \cup {"absent"})
    => /\ ~crashed
       /\ \A i \in 1..Len(Loaded) :
             /\ Loaded[i].key \in Keys(tile_dict)
             /\ tiles[Get(tile_dict, Loaded[i].key)].behavior =
                  IF Loaded[i].rec.behavior = "absent" THEN "stop"
                  ELSE Loaded[i].rec.behavior

\* C19: a load that fails (the file is missing or a record lacks a field)
\* leaves the tile map exactly as it was; a load that does not fail gives the
\* map all the records of the file.
C19_LoadAllOrNothing ==
    last.op = "load" =>
        /\ crashed => tile_dict = last.dict /\ tiles = last.tiles
        /\ ~crashed => Len(tile_dict) = Len(Loaded)

\* a load failed at a record that follows a good one, with tiles in the map
C19_Witness ==
    /\ last.op = "load" /\ crashed /\ Len(tile_dict) > 0
    /\ Len(Loaded) >= 2
    /\ Loaded[1].rec.behavior # "absent" /\ Loaded[2].rec.behavior = "absent"

\* C20: a load of a file with a behavior tag other than stop, pass and push
\* fails, and after a load that did not fail every tile in the map has one
\* of these three behaviors.
C20_KnownBehaviorsOnly ==
    last.op = "load" =>
        /\ (/\ last.files.level1.exists
            /\ \E i \in 1..Len(Loaded) :
                  Loaded[i].rec.behavior \notin Behaviors \cup {"absent"})
           => crashed
        /\ ~crashed => \A i \in 1..Len(tile_dict) : TileAt(i).behavior \in Behaviors

Abs(n) == IF n < 0 THEN -n ELSE n

\* a world point went to pixels and back
WorldRoundTrip == calc.kind = "world" /\ calc.n = 2 /\ calc.first = "world_to_render"

\* the surface of the round trip has the size of the window
OnWindow == ~calc.surf.given \/ calc.surf.size = WindowSize

C22_RoundTripWithinHalfPixel ==
    (WorldRoundTrip /\ OnWindow) =>
        /\ Abs(calc.val[1] - calc.src[1]) <= Sub
        /\ Abs(calc.val[2] - calc.src[2]) <= Sub

\* C23: for every surface handed to both transforms and every pixel q,
\* world_to_render(render_to_world(q, surf), surf) is q.
C23_InverseOnAnySurface ==
    (calc.kind = "render" /\ calc.n = 2 /\ calc.first = "render_to_world") =>
        calc.val = calc.src

\* ---- C24
IsFloat(t) == Float(t) = t
IsPoint(p) == IsFloat(p[1]) /\ IsFloat(p[2])

\* the real point half a size from p, toward the interior of the rectangle
\* whose corner p is, and away from it
Inward(p, sz, corner) ==
    <<IF corner \in {"topleft", "bottomleft"} THEN p[1] + sz[1] \div 2
                                             ELSE p[1] - sz[1] \div 2,
      IF corner \in {"topleft", "topright"} THEN p[2] - sz[2] \div 2
                                           ELSE p[2] + sz[2] \div 2>>
Outward(p, sz, corner) ==
    <<IF corner \in {"topleft", "bottomleft"} THEN p[1] - sz[1] \div 2
                                             ELSE p[1] + sz[1] \div 2,
      IF corner \in {"topleft", "topright"} THEN p[2] + sz[2] \div 2
                                           ELSE p[2] - sz[2] \div 2>>

Assigned == calc.kind = "frect" /\ calc.op = "assign"
SelfAssigned == calc.kind = "frect" /\ calc.op = "self"

IsInteger(a) == a.v % 2 = 0 /\ ~a.f

\* C25: snapping is idempotent and yields integers: for the world point p of
\* every click, snap_pos_to_grid(snap_pos_to_grid(p)) = snap_pos_to_grid(p)
\* and both coordinates of snap_pos_to_grid(p) are ints.
C25_SnapIdempotent ==
    last.op \in {"place", "erase"} =>
        /\ snap_pos_to_grid(snap_pos_to_grid(last.arg)) = snap_pos_to_grid(last.arg)
        /\ IsInteger(snap_pos_to_grid(last.arg)[1])
        /\ IsInteger(snap_pos_to_grid(last.arg)[2])

\* a click half way between two cells placed a tile at the snapped cell
C25_Witness ==
    /\ last.op = "place"
    /\ last.arg[2].v % 2 = 1
    /\ CellKey \in Keys(tile_dict)

\* ---- C26
Names(seq) == {seq[i] : i \in DOMAIN seq}
Only(seq, S) == SelectSeq(seq, LAMBDA x : x \in S)

\* C26: a frame whose drawings hold unrecognized names is not fatal: the
\* renderer lists exactly the unrecognized names as not drawn, draws every
\* recognized name, and no name is both drawn and not drawn.
C26_UnrecognizedNameNonFatal ==
    LET known == Recognized(calc.renderer) IN
    calc.kind = "frame" /\ Names(calc.drawings) \ known # {} =>
        /\ ~calc.frame.raised
        /\ calc.frame.todo_drawings = Only(calc.drawings, DrawingNames \ known)
        /\ calc.frame.drawn = Only(calc.drawings, known)
        /\ Names(calc.frame.drawn) \cap Names(calc.frame.todo_drawings) = {}

\* ---- C27
KeyOf(dict, id) == dict[CHOOSE i \in 1..Len(dict) : dict[i].id = id].key

\* every entry is stored under the name of its tile
KeyIsName ==
    \A i \in 1..Len(tile_dict) : tile_dict[i].key = name(TileAt(i))

\* C27: after a load, a place, an erase or a move request every entry of the
\* tile map is stored under the name of its tile; a tile that a move request
\* relocated is stored under another key than before, and a tile that it left
\* in place is still stored under its key.
C27_KeyIsName ==
    /\ (last.op \in {"load", "place", "erase", "move"} /\ ~crashed) => KeyIsName
    /\ MoveDone =>
          \A id \in Ids(last.dict) :
              /\ id \in Ids(tile_dict)
              /\ tiles[id].pos # last.tiles[id].pos
                    => KeyOf(tile_dict, id) # KeyOf(last.dict, id)
              /\ tiles[id].pos = last.tiles[id].pos
                    => KeyOf(tile_dict, id) = KeyOf(last.dict, id)

\* ---- C28
StopIds(heap) == {id \in DOMAIN heap : heap[id].behavior = "stop"}

\* the hitbox of a player at pos of width w strictly overlaps no Stop tile
Clear(pos, w, heap) ==
    \A id \in StopIds(heap) :
        ~StrictOverlap(Box(Value(pos), player_size(w)),
                       Box(Value(heap[id].pos), size(heap[id])))

\* the player as Game.__init__ and Player.__init__ make it
ClearAtStart == Clear(<<IntNum(-1), IntNum(0)>>, 2 * TILE_WIDTH, tiles)

\* C28 as stated: when the player's hitbox overlaps no Stop tile at the start,
\* it overlaps none after any sequence of move, grow and shrink requests.
C28_Original ==
    ClearAtStart => Clear(player_pos, player_width, tiles)

\* C28: a move request or a shrink that starts with the player's hitbox
\* overlapping no Stop tile ends with it overlapping no Stop tile.
C28_MoveAndShrinkKeepClear ==
    (/\ last.op = "move" \/ (last.op = "scale" /\ last.arg = "shrink")
     /\ Clear(last.pos, last.width, last.tiles))
        => Clear(player_pos, player_width, tiles)

\* a move request toward a Stop tile from a clear position was turned back
C28_Witness ==
    /\ MoveDone
    /\ Clear(last.pos, last.width, last.tiles)
    /\ \E id \in Hit : last.tiles[id].behavior = "stop"
    /\ \A id \in Hit : last.tiles[id].behavior = "stop"
    /\ Clear(player_pos, player_width, tiles)

\* ---- C29
\* C29: a move request ends, with the calls of push_tile nested at most as
\* deep as the map has tiles; every tile a push took out of the map is back in
\* the map when the request has ended without an error.
C29_PushDepthBounded ==
    last.op = "move" =>
        /\ last.depth <= Len(last.dict)
        /\ ~crashed => Ids(tile_dict) = Ids(last.dict)

\* a push inside a push: the nesting was as deep as the map has tiles
C29_Witness ==
    /\ MoveDone
    /\ last.depth = 2
    /\ Len(last.dict) = 2

\* ---- C30
\* the load was requested with the map still as the last save wrote it
LoadAfterSave ==
    /\ last.op = "load"
    /\ last.files.level.exists
    /\ last.files.level.json = dump(last.dict, last.tiles)

\* C30: in a game session a load that follows a save, with no change to the
\* map or the files in between, leaves the tile map as it was when it was
\* saved.
C30_SaveThenLoad ==
    LoadAfterSave => MapUnchanged
====
